---- MODULE Spec2Model ----
(***************************************************************************)
(* Model of the London MSOA map pipeline:                                  *)
(*   process_census_data.py   the ethnicity reader (long-format census)    *)
(*   london_black_income_map.py  the file loaders                          *)
(*   streamlit_app.py         the joiner, the table-wide statistics and    *)
(*                            the dynamic filter mask                      *)
(*   download_census_data.py  the network fetcher with its retry loops     *)
(*                                                                         *)
(* Numbers.  pandas works on IEEE doubles.  A value is modelled as an      *)
(* extended rational [k, n, d]: k = "fin" is the exact quotient n/d, and   *)
(* "nan", "inf", "ninf" are the three special doubles a division or a      *)
(* missing cell can produce.  Every comparison the code makes is between   *)
(* quotients of small integers, where the double comparison and the exact  *)
(* comparison agree, so comparisons are done by cross multiplication.      *)
(*                                                                         *)
(* Strings.  An area code and a subcategory label are sequences of tokens  *)
(* (<<"E02", "000001">>), so that str.startswith is a prefix test.         *)
(***************************************************************************)
EXTENDS Integers, Sequences, FiniteSets, TLC

VARIABLES
    census,          \* rows of data/census_ts021.csv (INPUT_FILE)
    shapes,          \* rows returned by load_london_shapes()
    income_df,       \* rows returned by load_income()
    black_csv,       \* rows of data/black_population.csv (BLACK_POP_CSV)
    housing_df,      \* rows returned by load_housing_affordability()
    gdf,             \* the joined table returned by load_all_data()
    stats,           \* (mean_income, percentile_65_house_price)
    criteria,        \* the three thresholds of the current rerun
    mask,            \* current_filter_mask
    found,           \* current_filter_mask.sum()
    folium_map,      \* the map create_base_map() built in the current run
    pc,              \* position of the data pipeline
    fpc,             \* position of download_census_data.py main()
    attempt,         \* the loop variable of the retry loop in progress
    url,             \* the URL the fetcher requests next, <<>> for None
    all_observations,\* the list fetch_census_data() builds
    log,             \* history: every requests.get() made, with its outcome
                     \* and the time.sleep() that followed it (0: none)
    error,           \* the exception that ended main(), "" while none
    served,          \* history: the pages the server answered with a JSON
                     \* body holding observations, as it sent them
    shp_columns,     \* gdf.columns of the shapefile read, geometry left out
    msoa_columns     \* (code_col, name_col) of _identify_msoa_columns()

dataVars == <<census, shapes, income_df, black_csv, housing_df, gdf, stats,
              criteria, mask, found, folium_map, pc, shp_columns,
              msoa_columns>>

fetchVars == <<fpc, attempt, url, all_observations, log, error, served>>

vars == <<dataVars, fetchVars, shp_columns, msoa_columns>>

(***************************************************************************)
(* Extended rationals                                                      *)
(***************************************************************************)
F(n, d) == [k |-> "fin", n |-> n, d |-> d]
Num(n)  == F(n, 1)
NaN     == [k |-> "nan", n |-> 0, d |-> 1]
PosInf  == [k |-> "inf", n |-> 1, d |-> 1]
NegInf  == [k |-> "ninf", n |-> -1, d |-> 1]

IsNaN(x) == x.k = "nan"

\* x <= y on doubles: false as soon as one side is NaN
Le(x, y) ==
    /\ ~IsNaN(x)
    /\ ~IsNaN(y)
    /\ \/ x.k = "ninf"
       \/ y.k = "inf"
       \/ x.k = "fin" /\ y.k = "fin" /\ x.n * y.d <= y.n * x.d

Ge(x, y) == Le(y, x)

\* int / int as pandas divides two numeric columns; a finite quotient is
\* kept with a positive denominator
Div(n, d) ==
    IF d > 0 THEN F(n, d)
    ELSE IF d < 0 THEN F(-n, -d)
    ELSE IF n = 0 THEN NaN
    ELSE IF n > 0 THEN PosInf
    ELSE NegInf

(***************************************************************************)
(* Strings as token sequences                                              *)
(***************************************************************************)
StartsWith(s, p) == Len(s) >= Len(p) /\ SubSeq(s, 1, Len(p)) = p

(***************************************************************************)
(* process_census_data.py: the ethnicity reader                            *)
(***************************************************************************)
MSOA_PREFIX  == <<"E02">>
BLACK_PREFIX == <<"Black, Black British, Black Welsh, Caribbean or African:">>

RECURSIVE SumObservation(_)
SumObservation(rows) ==
    IF rows = <<>> THEN 0
    ELSE Head(rows).Observation + SumObservation(Tail(rows))

RowsOf(rows, code) == SelectSeq(rows, LAMBDA r : r.code = code)

\* the group keys of a groupby, in sorted order (codes of one prefix sort by
\* their second token)
RECURSIVE SortedKeys(_)
SortedKeys(S) ==
    IF S = {} THEN <<>>
    ELSE LET m == CHOOSE c \in S : \A e \in S : c[2] <= e[2]
         IN  <<m>> \o SortedKeys(S \ {m})

GroupKeys(rows) == SortedKeys({rows[i].code : i \in 1..Len(rows)})

\* df[df[geo_col].astype(str).str.startswith("E02")]
MsoaData(df) == SelectSeq(df, LAMBDA r : StartsWith(r.code, MSOA_PREFIX))

\* only the first of the tracked group's subcategories kept
BlackRowsOneSubcategory(msoa_data) ==
    SelectSeq(msoa_data,
              LAMBDA r : r.ethnic_group = BLACK_PREFIX \o <<" African">>)

\* msoa_data[black_mask]
BlackRows(msoa_data) ==
    SelectSeq(msoa_data, LAMBDA r : StartsWith(r.ethnic_group, BLACK_PREFIX))

\* msoa_data.groupby(geo_col)[value_col].sum().reset_index()
GroupSum(rows) ==
    LET keys == GroupKeys(rows)
    IN  [i \in 1..Len(keys) |->
            [code |-> keys[i], sum |-> SumObservation(RowsOf(rows, keys[i]))]]

\* black_sum.merge(total, on=geo_col): an inner merge, one row per key of
\* black_sum that total has too; then the rename to msoa
ProcessCensusDataResult(df) ==
    LET msoa_data == MsoaData(df)
        total     == GroupSum(msoa_data)
        black_sum == GroupSum(BlackRows(msoa_data))
        pop(c)    == (CHOOSE t \in {total[j] : j \in 1..Len(total)} : t.code = c).sum
    IN  [i \in 1..Len(black_sum) |->
            [msoa        |-> black_sum[i].code,
             black_count |-> black_sum[i].sum,
             population  |-> pop(black_sum[i].code)]]

(***************************************************************************)
(* london_black_income_map.py: load_black_population                       *)
(***************************************************************************)
\* the quotient taken the wrong way round
LoadBlackPopulationInverted(csv) ==
    [i \in 1..Len(csv) |->
        [msoa        |-> csv[i].msoa,
         black_count |-> Num(csv[i].black_count),
         population  |-> Num(csv[i].population),
         black_share |-> Div(csv[i].population, csv[i].black_count)]]

\* df["black_share"] = df["black_count"] / df["population"]
LoadBlackPopulation(csv) ==
    [i \in 1..Len(csv) |->
        [msoa        |-> csv[i].msoa,
         black_count |-> Num(csv[i].black_count),
         population  |-> Num(csv[i].population),
         black_share |-> Div(csv[i].black_count, csv[i].population)]]

(***************************************************************************)
(* streamlit_app.py: load_all_data                                         *)
(***************************************************************************)
\* the cells a left merge gives a row that has no match on the right
NoIncome  == [income |-> NaN]
NoBlack   == [black_count |-> NaN, population |-> NaN, black_share |-> NaN]
NoHousing == [median_house_price |-> NaN]

\* the rows one left row contributes: one per matching right row, in the
\* right table's order, or itself with missing cells
MergeRow(l, right, missing) ==
    LET m == SelectSeq(right, LAMBDA r : r.msoa = l.msoa)
    IN  IF m = <<>> THEN << l @@ missing >>
        ELSE [j \in 1..Len(m) |-> l @@ m[j]]

\* left.merge(right, on="msoa", how="left")
RECURSIVE MergeLeft(_, _, _)
MergeLeft(left, right, missing) ==
    IF left = <<>> THEN <<>>
    ELSE MergeRow(Head(left), right, missing)
            \o MergeLeft(Tail(left), right, missing)

Merged(g, inc, blk, hou) ==
    MergeLeft(MergeLeft(MergeLeft(g, inc, NoIncome), blk, NoBlack),
              hou, NoHousing)

\* gdf.dropna(subset=['black_share', 'income', 'median_house_price'])
Complete(r) ==
    /\ ~IsNaN(r.black_share)
    /\ ~IsNaN(r.income)
    /\ ~IsNaN(r.median_house_price)

\* dropna without 'income' in its subset
DropNaShareAndPrice(t) ==
    SelectSeq(t, LAMBDA r : ~IsNaN(r.black_share) /\ ~IsNaN(r.median_house_price))

DropNa(t) == SelectSeq(t, Complete)

LoadAllDataResult(g, inc, csv, hou) ==
    DropNa(Merged(g, inc, LoadBlackPopulation(csv), hou))

(***************************************************************************)
(* streamlit_app.py: calculate_global_stats                                *)
(* The metric cells of the joined table are whole numbers (d = 1).         *)
(***************************************************************************)
PERCENTILE == 65

RECURSIVE SumN(_)
SumN(xs) == IF xs = <<>> THEN 0 ELSE Head(xs).n + SumN(Tail(xs))

Column(t, c) == [i \in 1..Len(t) |-> t[i][c]]

\* Series.mean(): NaN on an empty series
Mean(series) ==
    IF series = <<>> THEN NaN ELSE F(SumN(series), Len(series))

RECURSIVE Insert(_, _)
Insert(x, sorted) ==
    IF sorted = <<>> THEN <<x>>
    ELSE IF x.n <= Head(sorted).n THEN <<x>> \o sorted
    ELSE <<Head(sorted)>> \o Insert(x, Tail(sorted))

RECURSIVE Sorted(_)
Sorted(xs) == IF xs = <<>> THEN <<>> ELSE Insert(Head(xs), Sorted(Tail(xs)))

\* the interpolation done on the series as it stands, not sorted
QuantileUnsorted(series, pct) ==
    IF series = <<>> THEN NaN
    ELSE LET xs   == series
             pos  == pct * (Len(xs) - 1)
             lo   == (pos \div 100) + 1
             frac == pos % 100
             hi   == IF frac = 0 THEN lo ELSE lo + 1
         IN  F(100 * xs[lo].n + frac * (xs[hi].n - xs[lo].n), 100)

\* Series.quantile(q) with the default linear interpolation: the value at
\* the fractional position q*(n-1) of the sorted series, NaN when empty.
\* pct is q in hundredths; the result is kept exact, in hundredths.
Quantile(series, pct) ==
    IF series = <<>> THEN NaN
    ELSE LET xs   == Sorted(series)
             pos  == pct * (Len(xs) - 1)
             lo   == (pos \div 100) + 1
             frac == pos % 100
             hi   == IF frac = 0 THEN lo ELSE lo + 1
         IN  F(100 * xs[lo].n + frac * (xs[hi].n - xs[lo].n), 100)

CalculateGlobalStatsResult(income_series, housing_series) ==
    [mean_income               |-> Mean(income_series),
     percentile_65_house_price |-> Quantile(housing_series, PERCENTILE)]

(***************************************************************************)
(* streamlit_app.py: current_filter_mask                                   *)
(***************************************************************************)
\* the price bound taken as exclusive
RowMatchesStrictPrice(r, c) ==
    /\ Ge(r.black_share, c.black_share_threshold)
    /\ Ge(r.income, c.income_threshold_value)
    /\ Le(r.median_house_price, c.housing_threshold_value)
    /\ ~Le(c.housing_threshold_value, r.median_house_price)

\* the share bound taken as a maximum
RowMatchesShareBelow(r, c) ==
    /\ Le(r.black_share, c.black_share_threshold)
    /\ Ge(r.income, c.income_threshold_value)
    /\ Le(r.median_house_price, c.housing_threshold_value)

RowMatches(r, c) ==
    /\ Ge(r.black_share, c.black_share_threshold)
    /\ Ge(r.income, c.income_threshold_value)
    /\ Le(r.median_house_price, c.housing_threshold_value)

CurrentFilterMask(t, c) == [i \in 1..Len(t) |-> RowMatches(t[i], c)]

\* current_filter_mask.sum()
RECURSIVE MaskSum(_)
MaskSum(m) ==
    IF m = <<>> THEN 0
    ELSE (IF Head(m) THEN 1 ELSE 0) + MaskSum(Tail(m))

(***************************************************************************)
(* Input files                                                             *)
(***************************************************************************)
MaxRows       == 2   \* rows per input table, tables drawn freely over the keys
MaxAreas      == 2   \* areas, tables keyed alike and drawn freely over the cells
MaxPriceRows  == 4   \* areas, only the house prices drawn freely
MaxCensusRows == 2   \* rows of the census file

SeqsUpTo(S, n) == UNION {[1..k -> S] : k \in 0..n}

Msoa(i) == <<"E02", i>>

JoinCodes    == {Msoa(1), Msoa(2)}
CensusCodes  == {Msoa(1), Msoa(2), <<"W02", 1>>}
EthnicGroups == {BLACK_PREFIX \o <<" African">>,
                 BLACK_PREFIX \o <<" Caribbean">>,
                 <<"White:", " English, Welsh, Scottish, Northern Irish or British">>}
Observations == {-1, 0, 1}
CountPairs   == {<<0, 0>>, <<1, 0>>, <<0, 1>>, <<1, 2>>, <<2, 2>>, <<2, 1>>}
IncomeCells  == {NaN, Num(-1), Num(2)}
PriceCells   == {Num(1), Num(2)}
PriceRange   == {Num(1), Num(2), Num(3)}

NoStats    == [mean_income |-> NaN, percentile_65_house_price |-> NaN]
NoCriteria == [black_share_threshold  |-> NaN,
               income_threshold_value |-> NaN,
               housing_threshold_value |-> NaN]

\* no map has been built
NoMap == [show |-> <<>>, geojson |-> <<>>]

\* a column name is the sequence of its parts; the shapefile of the data
\* directory has MSOA11CD and MSOA11NM, and the file may carry others
SHAPEFILE_COLUMNS == <<<<"MSOA", "11", "CD">>, <<"MSOA", "11", "NM">>>>

ColumnNames == {<<"MSOA", "11", "CD">>, <<"MSOA", "21", "CD">>,
                <<"MSOA", "11", "NM">>, <<"MSOA", "11", "NMW">>,
                <<"msoa", "_", "name">>, <<"LAD", "11", "CD">>}

MaxColumns == 3

NoColumns == <<>>

NotLoaded ==
    /\ gdf = <<>>
    /\ stats = NoStats
    /\ criteria = NoCriteria
    /\ mask = <<>>
    /\ found = 0
    /\ folium_map = NoMap
    /\ msoa_columns = NoColumns

\* the four tables drawn freely: a code may be absent from a table, or be
\* there twice; the income and housing tables have MaxRows rows between them
InitKeys ==
    /\ census = <<>>
    /\ shapes \in SeqsUpTo({[msoa |-> c] : c \in JoinCodes}, MaxRows)
    /\ income_df \in SeqsUpTo({[msoa |-> c, income |-> Num(1)] : c \in JoinCodes},
                              MaxRows)
    /\ black_csv \in SeqsUpTo({[msoa |-> c, black_count |-> 1, population |-> 2] :
                                  c \in JoinCodes}, MaxRows)
    /\ housing_df \in SeqsUpTo({[msoa |-> c, median_house_price |-> Num(1)] :
                                   c \in JoinCodes}, MaxRows)
    /\ Len(income_df) + Len(housing_df) <= MaxRows
    /\ pc = "files"

\* one row per area in every table
Keyed(n, cnt, pop, inc, price) ==
    /\ census = <<>>
    /\ shapes = [i \in 1..n |-> [msoa |-> Msoa(i)]]
    /\ income_df = [i \in 1..n |-> [msoa |-> Msoa(i), income |-> inc[i]]]
    /\ black_csv = [i \in 1..n |-> [msoa |-> Msoa(i), black_count |-> cnt[i],
                                    population |-> pop[i]]]
    /\ housing_df = [i \in 1..n |-> [msoa |-> Msoa(i),
                                     median_house_price |-> price[i]]]
    /\ pc = "files"

InitCells ==
    \E n \in 0..MaxAreas :
        \E cp \in [1..n -> CountPairs], inc \in [1..n -> IncomeCells],
           price \in [1..n -> PriceCells] :
            Keyed(n, [i \in 1..n |-> cp[i][1]], [i \in 1..n |-> cp[i][2]],
                  inc, price)

InitPrices ==
    \E n \in 1..MaxPriceRows :
        \E price \in [1..n -> PriceRange] :
            Keyed(n, [i \in 1..n |-> 1], [i \in 1..n |-> 2],
                  [i \in 1..n |-> Num(1)], price)

\* the three areas of the end-to-end scenario: shares 0.20, 0.05, 0.30
InitScenario ==
    Keyed(3, <<20, 5, 30>>, <<100, 100, 100>>,
          <<Num(50000), Num(60000), Num(40000)>>,
          <<Num(300000), Num(200000), Num(500000)>>)

\* the two rows of the ethnicity reader's end-to-end scenario
ScenarioCensus ==
    << [code |-> Msoa(1), ethnic_group |-> BLACK_PREFIX \o <<" African">>,
        Observation |-> 50],
       [code |-> Msoa(1),
        ethnic_group |-> <<"White:", " English, Welsh, Scottish, Northern Irish or British">>,
        Observation |-> 450] >>

\* black_population.csv is still to be written by process_census_data.py
InitCensus ==
    /\ census \in SeqsUpTo([code : CensusCodes, ethnic_group : EthnicGroups,
                            Observation : Observations], MaxCensusRows)
                    \cup {ScenarioCensus}
    /\ shapes = [i \in 1..2 |-> [msoa |-> Msoa(i)]]
    /\ income_df = [i \in 1..2 |-> [msoa |-> Msoa(i), income |-> Num(i)]]
    /\ black_csv = <<>>
    /\ housing_df = [i \in 1..2 |-> [msoa |-> Msoa(i),
                                     median_house_price |-> Num(i)]]
    /\ pc = "census"

\* a census file that lacks one of the three columns the reader names
InitCensusColumns ==
    /\ census \in {<<[ethnic_group |-> BLACK_PREFIX \o <<" African">>,
                       Observation |-> 1]>>,
                    <<[code |-> Msoa(1), Observation |-> 1]>>,
                    <<[code |-> Msoa(1),
                       ethnic_group |-> BLACK_PREFIX \o <<" African">>]>>}
    /\ shapes = [i \in 1..2 |-> [msoa |-> Msoa(i)]]
    /\ income_df = [i \in 1..2 |-> [msoa |-> Msoa(i), income |-> Num(i)]]
    /\ black_csv = <<>>
    /\ housing_df = [i \in 1..2 |-> [msoa |-> Msoa(i),
                                     median_house_price |-> Num(i)]]
    /\ pc = "census"

\* a shapefile with other attribute columns, each name once, in any order
InitShapefile ==
    /\ shp_columns \in {c \in SeqsUpTo(ColumnNames, MaxColumns) :
                            \A i, j \in 1..Len(c) : c[i] = c[j] => i = j}
    /\ census = <<>>
    /\ shapes = [i \in 1..2 |-> [msoa |-> Msoa(i)]]
    /\ income_df = [i \in 1..2 |-> [msoa |-> Msoa(i), income |-> Num(i)]]
    /\ black_csv = [i \in 1..2 |-> [msoa |-> Msoa(i), black_count |-> 1,
                                    population |-> 2]]
    /\ housing_df = [i \in 1..2 |-> [msoa |-> Msoa(i),
                                     median_house_price |-> Num(i)]]
    /\ pc = "files"

InitData ==
    /\ NotLoaded
    /\ \/ /\ shp_columns = SHAPEFILE_COLUMNS
          /\ (InitKeys \/ InitCells \/ InitPrices \/ InitScenario
                \/ InitCensus \/ InitCensusColumns)
       \/ InitShapefile

(***************************************************************************)
(* Operations of the data pipeline                                         *)
(***************************************************************************)
\* geo_col, ethnic_col, value_col
CensusColumns == {"code", "ethnic_group", "Observation"}

HasCensusColumns(df) ==
    \A i \in 1..Len(df) : CensusColumns \subseteq DOMAIN df[i]

\* process_census_data.py main(): df[geo_col] (or value_col, ethnic_col)
\* raises KeyError; main() logs it and raises it again, nothing is written
ProcessCensusDataKeyError ==
    /\ pc = "census"
    /\ ~HasCensusColumns(census)
    /\ pc' = "failed"
    /\ UNCHANGED <<census, shapes, income_df, black_csv, housing_df, gdf, stats,
                   criteria, mask, found, folium_map, fetchVars, shp_columns, msoa_columns>>

\* process_census_data.py main(): result_df.to_csv(OUTPUT_FILE)
ProcessCensusData ==
    /\ pc = "census"
    /\ HasCensusColumns(census)
    /\ black_csv' = ProcessCensusDataResult(census)
    /\ pc' = "files"
    /\ UNCHANGED <<census, shapes, income_df, housing_df, gdf, stats,
                   criteria, mask, found, folium_map, fetchVars, shp_columns, msoa_columns>>

\* str.lower() of one part of a column name
LowerPart(t) ==
    CASE t = "MSOA" -> "msoa"
      [] t = "LAD"  -> "lad"
      [] t = "CD"   -> "cd"
      [] t = "NM"   -> "nm"
      [] t = "NMW"  -> "nmw"
      [] OTHER      -> t

Lower(c) == [i \in 1..Len(c) |-> LowerPart(c[i])]

\* c.lower().startswith("msoa") and c.lower().endswith("cd")
IsCodeColumn(c) ==
    /\ StartsWith(Lower(c), <<"msoa">>)
    /\ Lower(c)[Len(c)] = "cd"

\* c.lower().startswith("msoa") and (c.lower().endswith("nm")
\*                                     or "name" in c.lower())
IsNameColumn(c) ==
    /\ StartsWith(Lower(c), <<"msoa">>)
    /\ \/ Lower(c)[Len(c)] = "nm"
       \/ \E i \in 1..Len(c) : Lower(c)[i] = "name"

\* next((c for c in columns if ...), None): the first match, <<>> for None
RECURSIVE FirstCodeColumn(_)
FirstCodeColumn(columns) ==
    IF columns = <<>> THEN <<>>
    ELSE IF IsCodeColumn(Head(columns)) THEN Head(columns)
    ELSE FirstCodeColumn(Tail(columns))

RECURSIVE FirstNameColumn(_)
FirstNameColumn(columns) ==
    IF columns = <<>> THEN <<>>
    ELSE IF IsNameColumn(Head(columns)) THEN Head(columns)
    ELSE FirstNameColumn(Tail(columns))

\* if not code_col or not name_col: raise KeyError
ColumnsIdentified(columns) ==
    /\ FirstCodeColumn(columns) # <<>>
    /\ FirstNameColumn(columns) # <<>>

\* return code_col, name_col
IdentifyMsoaColumns(columns) ==
    <<FirstCodeColumn(columns), FirstNameColumn(columns)>>

\* gdf = load_all_data(): load_london_shapes() raises the KeyError of
\* _identify_msoa_columns() and the script stops
LoadAllDataKeyError ==
    /\ pc = "files"
    /\ ~ColumnsIdentified(shp_columns)
    /\ pc' = "failed"
    /\ UNCHANGED <<census, shapes, income_df, black_csv, housing_df, gdf, stats,
                   criteria, mask, found, folium_map, fetchVars, shp_columns,
                   msoa_columns>>

\* gdf = load_all_data()
LoadAllData ==
    /\ pc = "files"
    /\ ColumnsIdentified(shp_columns)
    /\ msoa_columns' = IdentifyMsoaColumns(shp_columns)
    /\ gdf' = LoadAllDataResult(shapes, income_df, black_csv, housing_df)
    /\ pc' = "loaded"
    /\ UNCHANGED <<census, shapes, income_df, black_csv, housing_df, stats,
                   criteria, mask, found, folium_map, fetchVars, shp_columns>>

\* mean_income, percentile_65_house_price = calculate_global_stats(...)
CalculateGlobalStats ==
    /\ pc = "loaded"
    /\ stats' = CalculateGlobalStatsResult(Column(gdf, "income"),
                                           Column(gdf, "median_house_price"))
    /\ pc' = "stats"
    /\ UNCHANGED <<census, shapes, income_df, black_csv, housing_df, gdf,
                   criteria, mask, found, folium_map, fetchVars, shp_columns, msoa_columns>>

\* the thresholds a run of the script can be given.  Shares are in
\* hundredths (the slider divides by 100.0); 101 is the share 1.01.  The
\* income and price thresholds are the table-wide defaults, the widest
\* ones (0 and no price ceiling) or custom values.
ShareThresholds == {F(0, 100), F(50, 100), F(101, 100)}
IncomeAndHousingThresholds ==
    {<<stats.mean_income, stats.percentile_65_house_price>>,
     <<Num(0), PosInf>>,
     <<Num(2), Num(1)>>}

ScenarioCriteria ==
    [black_share_threshold   |-> F(15, 100),
     income_threshold_value  |-> Num(45000),
     housing_threshold_value |-> Num(400000)]

FilterCriteria ==
    {[black_share_threshold   |-> s,
      income_threshold_value  |-> ih[1],
      housing_threshold_value |-> ih[2]] :
        s \in ShareThresholds, ih \in IncomeAndHousingThresholds}
    \cup {ScenarioCriteria}

\* the four checkboxes: show_black_share, show_income, show_house_price,
\* show_filtered_areas; the first choice is the defaults
DefaultShow  == <<TRUE, FALSE, FALSE, TRUE>>
LayerChoices == {DefaultShow, <<FALSE, TRUE, TRUE, FALSE>>,
                 <<TRUE, TRUE, TRUE, TRUE>>}

\* what the widgets hold in one run: any thresholds under the default
\* layers, or the default threshold types under any layer choice
RunInputs ==
    {<<c, DefaultShow>> : c \in FilterCriteria}
    \cup {<<[black_share_threshold   |-> F(50, 100),
             income_threshold_value  |-> stats.mean_income,
             housing_threshold_value |-> stats.percentile_65_house_price],
            show>> : show \in LayerChoices}

\* gdf_with_filter_mask = dataframe.copy();
\* gdf_with_filter_mask["is_filtered"] = current_filter_mask_series.astype(int)
GdfWithFilterMask(dataframe, current_filter_mask_series) ==
    [i \in 1..Len(dataframe) |->
        dataframe[i] @@
            [is_filtered |-> IF current_filter_mask_series[i] THEN 1 ELSE 0]]

\* the column written on the table handed in, not on a copy of it
TableAfterRenderInPlace(t, current_filter_mask_series) ==
    GdfWithFilterMask(t, current_filter_mask_series)

\* the loaded table after create_base_map(gdf.copy(), ...): the call is
\* given a copy, and the one column it adds goes on a copy of that copy
TableAfterRender(t, current_filter_mask_series) == t

\* create_base_map: the layer switches and the data of the dynamic layer
CreateBaseMap(dataframe, current_filter_mask_series, show) ==
    [show    |-> show,
     geojson |-> GdfWithFilterMask(dataframe, current_filter_mask_series)]

\* the script body after the cached loads: the thresholds and checkboxes
\* are read, the mask and the match count are computed from scratch, the
\* map is built
ApplyFilter ==
    /\ pc = "stats"
    /\ \E in \in RunInputs :
        /\ criteria' = in[1]
        /\ mask' = CurrentFilterMask(gdf, in[1])
        /\ found' = MaskSum(CurrentFilterMask(gdf, in[1]))
        /\ folium_map' = CreateBaseMap(gdf, CurrentFilterMask(gdf, in[1]), in[2])
        /\ gdf' = TableAfterRender(gdf, CurrentFilterMask(gdf, in[1]))
    /\ pc' = "filtered"
    /\ UNCHANGED <<census, shapes, income_df, black_csv, housing_df, stats,
                   fetchVars, shp_columns, msoa_columns>>

\* a widget changes: Streamlit runs the script again from the top.  The
\* two cached calls return what they returned before; the thresholds, mask,
\* count and map of the previous run are gone.
Rerun ==
    /\ pc = "filtered"
    /\ criteria' = NoCriteria
    /\ mask' = <<>>
    /\ found' = 0
    /\ folium_map' = NoMap
    /\ pc' = "stats"
    /\ UNCHANGED <<census, shapes, income_df, black_csv, housing_df, gdf, stats,
                   fetchVars, shp_columns, msoa_columns>>

\* the fetcher is a separate program: it is not running here
FetcherIdle ==
    /\ fpc = "idle"
    /\ attempt = 0
    /\ url = <<>>
    /\ all_observations = <<>>
    /\ log = <<>>
    /\ error = ""
    /\ served = <<>>

Init == InitData /\ FetcherIdle

Next ==
    \/ ProcessCensusData
    \/ ProcessCensusDataKeyError
    \/ LoadAllData
    \/ LoadAllDataKeyError
    \/ CalculateGlobalStats
    \/ ApplyFilter
    \/ Rerun

Spec == Init /\ [][Next]_vars

(***************************************************************************)
(* download_census_data.py: get_dimensions and fetch_census_data           *)
(*                                                                         *)
(* The server is the environment.  A request ends in one of:               *)
(*   a response with a JSON body (the attempt succeeds),                   *)
(*   a requests.exceptions.RequestException (no connection, a timeout, or  *)
(*     raise_for_status() on an HTTP error status),                        *)
(*   a 2xx response whose body is not JSON: safe_json() raises             *)
(*     RuntimeError, which the except clause of the loop does not name,    *)
(*   (observations only) a JSON body without "observations": KeyError.     *)
(* The observations of page k are <<k, 1>>, <<k, 2>>, ...; the server      *)
(* decides how many there are and whether a next page exists.              *)
(***************************************************************************)
MAX_RETRIES == 3

MaxPages       == 3   \* pages the server may chain
MaxObservations == 2  \* observations on one page

DIMENSIONS_URL == <<"dimensions">>
BASE_URL       == <<"observations", 1>>
NoUrl          == <<>>

\* the backoff started at 2 s
BackoffSecondsFromTwo(a) == 2 ^ (a + 1)

\* sleep = 2 ** attempt
BackoffSeconds(a) == 2 ^ a

Request(u, result, slept) == [url |-> u, result |-> result, slept |-> slept]

PageObservations(k, n) == [j \in 1..n |-> <<k, j>>]

\* data.get("pagination", {}).get("next")
NextUrls(u) == {NoUrl} \cup (IF u[2] < MaxPages THEN {<<"observations", u[2] + 1>>}
                             ELSE {})

\* the except clause shared by the two loops: the last attempt raises
\* RuntimeError, an earlier one sleeps and lets the loop go on
RequestFailed(what) ==
    IF attempt = MAX_RETRIES - 1
    THEN /\ log' = Append(log, Request(url, "RequestException", 0))
         /\ fpc' = "failed"
         /\ error' = what
         /\ UNCHANGED <<attempt, url, all_observations, served>>
    ELSE /\ log' = Append(log, Request(url, "RequestException",
                                       BackoffSeconds(attempt)))
         /\ attempt' = attempt + 1
         /\ UNCHANGED <<fpc, url, all_observations, error, served>>

\* safe_json() raises RuntimeError out of the loop and out of main()
NonJson ==
    /\ log' = Append(log, Request(url, "non-JSON", 0))
    /\ fpc' = "failed"
    /\ error' = "ONS API returned non-JSON"
    /\ UNCHANGED <<attempt, url, all_observations, served>>

\* get_dimensions(): return safe_json(r); main() goes on to fetch_census_data()
DimensionsFetched ==
    /\ fpc = "get_dimensions"
    /\ log' = Append(log, Request(url, "ok", 0))
    /\ fpc' = "fetch_census_data"
    /\ url' = BASE_URL
    /\ attempt' = 0
    /\ UNCHANGED <<all_observations, error, served, dataVars>>

DimensionsRequestFailed ==
    /\ fpc = "get_dimensions"
    /\ RequestFailed("Failed to fetch dimensions after 3 attempts")
    /\ UNCHANGED dataVars

DimensionsNonJson ==
    /\ fpc = "get_dimensions"
    /\ NonJson
    /\ UNCHANGED dataVars

\* the page of the observations endpoint as the server sent it
Page(u, n, next) ==
    [url |-> u, observations |-> PageObservations(u[2], n), next |-> next]

\* the page put in front of the list instead of at its end
PageFetchedPrepending ==
    /\ fpc = "fetch_census_data"
    /\ \E n \in 0..MaxObservations, next \in NextUrls(url) :
        /\ all_observations' = PageObservations(url[2], n) \o all_observations
        /\ served' = Append(served, Page(url, n, next))
        /\ url' = next
        /\ fpc' = IF next = NoUrl THEN "done" ELSE "fetch_census_data"
    /\ log' = Append(log, Request(url, "ok", 0))
    /\ attempt' = 0
    /\ UNCHANGED <<error, dataVars>>

\* fetch_census_data(): extend, follow pagination.next, break; the while
\* loop starts the retry loop afresh for the next URL, or ends on None
PageFetched ==
    /\ fpc = "fetch_census_data"
    /\ \E n \in 0..MaxObservations, next \in NextUrls(url) :
        /\ all_observations' = all_observations \o PageObservations(url[2], n)
        /\ served' = Append(served, Page(url, n, next))
        /\ url' = next
        /\ fpc' = IF next = NoUrl THEN "done" ELSE "fetch_census_data"
    /\ log' = Append(log, Request(url, "ok", 0))
    /\ attempt' = 0
    /\ UNCHANGED <<error, dataVars>>

PageRequestFailed ==
    /\ fpc = "fetch_census_data"
    /\ RequestFailed("Failed to fetch data after 3 attempts")
    /\ UNCHANGED dataVars

PageNonJson ==
    /\ fpc = "fetch_census_data"
    /\ NonJson
    /\ UNCHANGED dataVars

\* data["observations"] on a JSON body that has no such key
PageWithoutObservations ==
    /\ fpc = "fetch_census_data"
    /\ log' = Append(log, Request(url, "ok", 0))
    /\ fpc' = "failed"
    /\ error' = "KeyError: observations"
    /\ UNCHANGED <<attempt, url, all_observations, served, dataVars>>

\* the data pipeline is not running while the fetcher is
NoData ==
    /\ census = <<>>
    /\ shapes = <<>>
    /\ income_df = <<>>
    /\ black_csv = <<>>
    /\ housing_df = <<>>
    /\ shp_columns = <<>>
    /\ NotLoaded
    /\ pc = "idle"

InitFetch ==
    /\ NoData
    /\ fpc = "get_dimensions"
    /\ attempt = 0
    /\ url = DIMENSIONS_URL
    /\ all_observations = <<>>
    /\ log = <<>>
    /\ error = ""
    /\ served = <<>>

NextFetch ==
    \/ DimensionsFetched
    \/ DimensionsRequestFailed
    \/ DimensionsNonJson
    \/ PageFetched
    \/ PageRequestFailed
    \/ PageNonJson
    \/ PageWithoutObservations

SpecFetch == InitFetch /\ [][NextFetch]_vars

(***************************************************************************)
(* Properties of the joiner and the filter (specification Spec)            *)
(***************************************************************************)
Loaded   == pc \in {"loaded", "stats", "filtered"}
Rows(t)  == {t[i] : i \in 1..Len(t)}
Codes(t) == {t[i].msoa : i \in 1..Len(t)}

\* C1: the mask is true for a row exactly when its share is at least
\* min_group_share, its income at least min_income and its house price at
\* most max_house_price, both bounds inclusive; the match count is the
\* number of true rows; the three-row scenario gives [true, false, false]
\* and 1.
C1_MaskIsConjunction ==
    pc = "filtered" =>
        /\ Len(mask) = Len(gdf)
        /\ \A i \in 1..Len(gdf) :
              mask[i] <=>
                  /\ Ge(gdf[i].black_share, criteria.black_share_threshold)
                  /\ Ge(gdf[i].income, criteria.income_threshold_value)
                  /\ Le(gdf[i].median_house_price, criteria.housing_threshold_value)
        /\ found = Cardinality({i \in 1..Len(mask) : mask[i]})
        /\ (Len(gdf) = 3 /\ gdf[1].income = Num(50000)
                /\ criteria = ScenarioCriteria)
              => mask = <<TRUE, FALSE, FALSE>> /\ found = 1

C1_Witness ==
    /\ pc = "filtered"
    /\ criteria = ScenarioCriteria
    /\ Len(gdf) = 3
    /\ gdf[1].black_share = F(20, 100)
    /\ gdf[2].median_house_price = Num(200000)
    /\ mask = <<TRUE, FALSE, FALSE>>
    /\ found = 1

\* a code has a usable cell in each of the three metric tables
HasIncome(c) == \E r \in Rows(income_df) : r.msoa = c /\ ~IsNaN(r.income)
HasShare(c) ==
    \E r \in Rows(black_csv) :
        r.msoa = c /\ ~(r.black_count = 0 /\ r.population = 0)
HasPrice(c) ==
    \E r \in Rows(housing_df) : r.msoa = c /\ ~IsNaN(r.median_house_price)

\* C2: every row of the joined table has group_share, income and house_price
\* present; a code that is absent from the income, ethnicity or housing table,
\* or whose metric is missing there, is in no row of the joined table.
C2_JoinedRowsComplete ==
    Loaded =>
        \A r \in Rows(gdf) :
            /\ ~IsNaN(r.black_share)
            /\ ~IsNaN(r.income)
            /\ ~IsNaN(r.median_house_price)
            /\ HasIncome(r.msoa) /\ HasShare(r.msoa) /\ HasPrice(r.msoa)

C2_Witness ==
    /\ pc = "loaded"
    /\ gdf # <<>>
    /\ \E c \in Codes(shapes) :
          /\ c \notin Codes(gdf)
          /\ ~(HasIncome(c) /\ HasShare(c) /\ HasPrice(c))

Min(S) == CHOOSE m \in S : \A e \in S : m <= e

\* C3 (as claimed): the joined table has at most as many rows as the smallest
\* of the four input tables.
C3_AtMostSmallestInput ==
    Loaded =>
        Len(gdf) <= Min({Len(shapes), Len(income_df), Len(black_csv),
                         Len(housing_df)})

Unique(t) == \A i, j \in 1..Len(t) : t[i].msoa = t[j].msoa => i = j

\* C4 (as claimed): when the geometry table has one row per area code, no
\* two rows of the joined table carry the same area code.
C4_AreaCodeUnique ==
    (Loaded /\ Unique(shapes)) => Unique(gdf)

(***************************************************************************)
(* Properties of the ethnicity reader (specification Spec)                 *)
(***************************************************************************)
\* black_population.csv has been written from the census file
CensusProcessed ==
    /\ census # <<>>
    /\ HasCensusColumns(census)
    /\ pc # "census"

RECURSIVE SumAt(_, _)
SumAt(df, I) ==
    IF I = {} THEN 0
    ELSE LET i == CHOOSE j \in I : TRUE
         IN  df[i].Observation + SumAt(df, I \ {i})

AreaRows(c)    == {i \in 1..Len(census) : census[i].code = c}
TrackedRows(c) ==
    {i \in AreaRows(c) : StartsWith(census[i].ethnic_group, BLACK_PREFIX)}
RegionCodes ==
    {census[i].code : i \in {j \in 1..Len(census) : census[j].code[1] = "E02"}}

ReaderRowFor(c) ==
    \E i \in 1..Len(black_csv) :
        /\ black_csv[i].msoa = c
        /\ black_csv[i].population = SumAt(census, AreaRows(c))
        /\ black_csv[i].black_count = SumAt(census, TrackedRows(c))

\* C5 (as claimed): the reader returns, for every area whose code starts with
\* the region prefix, total_population = the sum over all its rows and
\* group_count = the sum over its tracked-group rows.
C5_RowForEveryRegionArea ==
    CensusProcessed => \A c \in RegionCodes : ReaderRowFor(c)

\* C5 (amended): the reader returns exactly one row for every region area that
\* has at least one tracked-group row, and no other row; the row carries the
\* sum over all rows of the area and the sum over its tracked-group rows, all
\* tracked subcategories summed.  The scenario gives 500 and 50.
C5_RowForEveryTrackedArea ==
    CensusProcessed =>
        /\ \A c \in RegionCodes : TrackedRows(c) # {} => ReaderRowFor(c)
        /\ \A i \in 1..Len(black_csv) :
              /\ black_csv[i].msoa \in RegionCodes
              /\ TrackedRows(black_csv[i].msoa) # {}
              /\ \A j \in 1..Len(black_csv) :
                    black_csv[j].msoa = black_csv[i].msoa => i = j
        /\ census = ScenarioCensus =>
              black_csv = << [msoa |-> Msoa(1), black_count |-> 50,
                              population |-> 500] >>

C5_Witness ==
    /\ CensusProcessed
    /\ \E c \in RegionCodes :
          /\ Cardinality(TrackedRows(c)) = 2
          /\ \A i \in TrackedRows(c) : census[i].Observation = 1
          /\ \E r \in Rows(black_csv) : r.msoa = c /\ r.black_count = 2

InUnitInterval(x) == Le(Num(0), x) /\ Le(x, Num(1))

\* C6: a row of the joined table whose counts are valid (0 <= group_count <=
\* total_population) has its group_share in [0, 1]; and on non-negative
\* observations every row the ethnicity reader writes has
\* 0 <= group_count <= total_population.
C6_ShareInUnitInterval ==
    /\ Loaded =>
          \A r \in Rows(gdf) :
              (0 <= r.black_count.n /\ r.black_count.n <= r.population.n)
                  => InUnitInterval(r.black_share)
    /\ (CensusProcessed /\ \A i \in 1..Len(census) : census[i].Observation >= 0)
          => \A r \in Rows(black_csv) :
                0 <= r.black_count /\ r.black_count <= r.population

C6_Witness ==
    /\ CensusProcessed
    /\ pc = "loaded"
    /\ \A i \in 1..Len(census) : census[i].Observation >= 0
    /\ \E r \in Rows(gdf) :
          /\ 0 < r.black_count.n
          /\ r.black_count.n < r.population.n
          /\ r.black_share = F(1, 2)

(***************************************************************************)
(* Properties of the table-wide statistics (specification Spec)            *)
(***************************************************************************)
StatsKnown == pc \in {"stats", "filtered"}

\* the rows priced at or under the 65th percentile
AtOrUnderP65 ==
    {i \in 1..Len(gdf) :
        Le(gdf[i].median_house_price, stats.percentile_65_house_price)}

\* C7 (as claimed): on a non-empty joined table at least 65% of the rows have
\* house_price <= house_price_p65.
C7_AtLeast65PercentOfRows ==
    (StatsKnown /\ gdf # <<>>) =>
        100 * Cardinality(AtOrUnderP65) >= PERCENTILE * Len(gdf)

\* C7 (amended): on a non-empty joined table of n rows at least
\* floor(0.65 * (n - 1)) + 1 rows, that is more than 65% of n - 1 rows, have
\* house_price <= house_price_p65.
C7_AtLeast65PercentOfGaps ==
    (StatsKnown /\ gdf # <<>>) =>
        /\ Cardinality(AtOrUnderP65) >= ((PERCENTILE * (Len(gdf) - 1)) \div 100) + 1
        /\ 100 * Cardinality(AtOrUnderP65) > PERCENTILE * (Len(gdf) - 1)

C7_Witness ==
    /\ pc = "stats"
    /\ Len(gdf) = 4
    /\ Cardinality(AtOrUnderP65) = 2
    /\ stats.percentile_65_house_price = F(295, 100)

(***************************************************************************)
(* Properties of the boundary criteria (specification Spec)                *)
(***************************************************************************)
MatchEverything ==
    /\ criteria.black_share_threshold = F(0, 100)
    /\ criteria.income_threshold_value = Num(0)
    /\ criteria.housing_threshold_value = PosInf

ImpossibleShare == criteria.black_share_threshold = F(101, 100)

\* C8 (as claimed): on every joined table the criteria (0, 0, +infinity)
\* match all rows and criteria with min_group_share = 1.01 match none.
C8_BoundaryCriteria ==
    pc = "filtered" =>
        /\ MatchEverything => found = Len(gdf)
        /\ ImpossibleShare => found = 0

ValidRow(r) ==
    /\ 0 <= r.black_count.n
    /\ r.black_count.n <= r.population.n
    /\ Le(Num(0), r.income)

\* C8 (amended): on every joined table whose rows have
\* 0 <= group_count <= total_population and income >= 0 the criteria
\* (0, 0, +infinity) match all rows and criteria with min_group_share = 1.01
\* match none; row by row, a row with such cells is matched by the first and
\* not matched by the second.
C8_BoundaryCriteriaOnValidRows ==
    pc = "filtered" =>
        /\ MatchEverything =>
              /\ \A i \in 1..Len(gdf) : ValidRow(gdf[i]) => mask[i]
              /\ (\A i \in 1..Len(gdf) : ValidRow(gdf[i])) => found = Len(gdf)
        /\ ImpossibleShare =>
              /\ \A i \in 1..Len(gdf) : ValidRow(gdf[i]) => ~mask[i]
              /\ (\A i \in 1..Len(gdf) : ValidRow(gdf[i])) => found = 0

C8_Witness ==
    /\ pc = "filtered"
    /\ ImpossibleShare
    /\ Len(gdf) = 2
    /\ \A i \in 1..Len(gdf) : ValidRow(gdf[i])
    /\ gdf[1].black_share = F(2, 2)
    /\ Ge(gdf[1].income, criteria.income_threshold_value)
    /\ Le(gdf[1].median_house_price, criteria.housing_threshold_value)
    /\ found = 0

(***************************************************************************)
(* Properties of the network fetcher (specification SpecFetch)             *)
(***************************************************************************)
\* the requests made for the URL of request i before request i
PriorAttempts(i) ==
    Cardinality({j \in 1..(i - 1) : log[j].url = log[i].url})

\* C9: a request is attempted at most 3 times; a first attempt that fails
\* with a request error is followed by a 1 s wait, a second by a 2 s wait,
\* a third by no wait: it is the last request made and the fetch has failed
\* for good, with nothing left to run; a request that succeeded is not made
\* again, and an attempt is repeated only after request errors.
C9_BoundedRetriesWithBackoff ==
    /\ \A i \in 1..Len(log) :
          /\ PriorAttempts(i) < 3
          /\ log[i].result = "RequestException" =>
                /\ PriorAttempts(i) = 0 => log[i].slept = 1
                /\ PriorAttempts(i) = 1 => log[i].slept = 2
                /\ PriorAttempts(i) = 2 =>
                      /\ log[i].slept = 0
                      /\ i = Len(log)
                      /\ fpc = "failed"
          /\ log[i].result = "ok" =>
                /\ log[i].slept = 0
                /\ \A j \in (i + 1)..Len(log) : log[j].url # log[i].url
          /\ \A j \in 1..(i - 1) :
                log[j].url = log[i].url => log[j].result = "RequestException"
    /\ fpc = "failed" => ~ENABLED NextFetch

C9_Witness ==
    /\ fpc = "failed"
    /\ error = "Failed to fetch data after 3 attempts"
    /\ Len(log) = 6
    /\ log[2].url = BASE_URL /\ log[2].result = "RequestException"
    /\ log[3].url = BASE_URL /\ log[3].result = "ok"
    /\ \A i \in 4..6 :
          log[i].url = <<"observations", 2>> /\ log[i].result = "RequestException"
    /\ log[4].slept = 1 /\ log[5].slept = 2 /\ log[6].slept = 0

\* C10 (as claimed): a response whose body is not JSON is retried like an
\* HTTP error status: a wait of 1 s, then 2 s, follows the first and the
\* second such attempt, and the fetch fails for good only on the third
\* attempt for the URL.
C10_NonJsonIsRetried ==
    \A i \in 1..Len(log) :
        log[i].result = "non-JSON" =>
            IF PriorAttempts(i) < 2
            THEN log[i].slept = 2 ^ PriorAttempts(i) /\ fpc # "failed"
            ELSE fpc = "failed"

RECURSIVE Concatenated(_)
Concatenated(pages) ==
    IF pages = <<>> THEN <<>>
    ELSE Head(pages).observations \o Concatenated(Tail(pages))

\* C11: the fetcher follows pagination.next from the base URL, page after
\* page, and returns exactly when a page had no next URL; whatever request
\* errors came in between, the list is the concatenation, in page order, of
\* the observations of every page answered, each page there once.
C11_PagesConcatenatedOnce ==
    /\ all_observations = Concatenated(served)
    /\ served # <<>> => served[1].url = BASE_URL
    /\ \A i \in 1..(Len(served) - 1) :
          served[i].next # NoUrl /\ served[i + 1].url = served[i].next
    /\ \A i, j \in 1..Len(served) : served[i].url = served[j].url => i = j
    /\ fpc = "done" <=> (served # <<>> /\ served[Len(served)].next = NoUrl)
    /\ fpc = "done" => url = NoUrl
    /\ fpc = "fetch_census_data" =>
          url = IF served = <<>> THEN BASE_URL ELSE served[Len(served)].next

C11_Witness ==
    /\ fpc = "done"
    /\ Len(served) = 2
    /\ Len(log) = 7
    /\ log[3].result = "RequestException" /\ log[3].url = BASE_URL
    /\ log[6].result = "RequestException" /\ log[6].url = <<"observations", 2>>
    /\ all_observations = <<<<1, 1>>, <<1, 2>>, <<2, 1>>>>

(***************************************************************************)
(* Properties of the error handling of the pipeline (specification Spec)   *)
(***************************************************************************)
\* C12 (as claimed): on an empty joined table the computation of mean_income
\* and house_price_p65 fails: the pipeline never stands past the statistics
\* with an empty table, a NaN statistic or a NaN threshold.
C12_EmptyTableIsDataError ==
    StatsKnown =>
        /\ gdf # <<>>
        /\ ~IsNaN(stats.mean_income)
        /\ ~IsNaN(stats.percentile_65_house_price)
        /\ pc = "filtered" =>
              /\ ~IsNaN(criteria.income_threshold_value)
              /\ ~IsNaN(criteria.housing_threshold_value)

\* C13 (as claimed): an area with total_population = 0 makes the load fail:
\* no table is returned from a file that has such an area, so no infinite or
\* NaN share is kept in the joined table and none is dropped from it.
C13_ZeroPopulationIsDataError ==
    Loaded =>
        /\ \A r \in Rows(black_csv) : r.population # 0
        /\ \A r \in Rows(gdf) : r.black_share.k = "fin"

(***************************************************************************)
(* Properties of the loaded table (specification Spec)                     *)
(***************************************************************************)
\* C14: once load_all_data has returned the joined table, no run of the
\* script (new thresholds, new layer switches, a new map) changes it: same
\* rows, same columns, same cells.  The mask is a column of its own, as long
\* as the table; it is added as is_filtered to the copy the dynamic layer is
\* drawn from, which keeps every row, and is never a column of the table.
C14_LoadedTableNeverChanges ==
    /\ [][Loaded => gdf' = gdf]_vars
    /\ [](pc = "filtered" =>
            /\ Len(mask) = Len(gdf)
            /\ Len(folium_map.geojson) = Len(gdf)
            /\ \A i \in 1..Len(gdf) :
                  /\ "is_filtered" \notin DOMAIN gdf[i]
                  /\ DOMAIN folium_map.geojson[i] = DOMAIN gdf[i] \cup {"is_filtered"}
                  /\ \A f \in DOMAIN gdf[i] : folium_map.geojson[i][f] = gdf[i][f]
                  /\ folium_map.geojson[i].is_filtered = 1 <=> mask[i])

C14_Witness ==
    /\ pc = "filtered"
    /\ folium_map.show = <<FALSE, TRUE, TRUE, FALSE>>
    /\ Len(gdf) = 2
    /\ mask = <<TRUE, FALSE>>
    /\ folium_map.geojson[1].is_filtered = 1
    /\ folium_map.geojson[2].is_filtered = 0

\* C15 (as claimed): the ethnicity reader fails and writes nothing when the
\* area-code or the subcategory-label column is absent, and also when the
\* summation yields zero areas: whenever it has written its table, the
\* columns were there and the table has at least one area.
C15_NoOutputWithoutAreas ==
    /\ (census # <<>> /\ pc \notin {"census", "failed"}) =>
          /\ HasCensusColumns(census)
          /\ black_csv # <<>>
    /\ pc = "failed" => black_csv = <<>>

CodeCandidates(columns) ==
    {i \in 1..Len(columns) : IsCodeColumn(columns[i])}

NameCandidates(columns) ==
    {i \in 1..Len(columns) : IsNameColumn(columns[i])}

\* C16 (as claimed): the geometry reader's column identification returns a
\* (code, name) pair only when exactly one column is a candidate for the
\* code and exactly one for the name; with none, or with more than one for
\* either, it fails and the table is never loaded.
C16_PairOnlyWhenUnambiguous ==
    /\ msoa_columns # NoColumns =>
          /\ Cardinality(CodeCandidates(shp_columns)) = 1
          /\ Cardinality(NameCandidates(shp_columns)) = 1
    /\ (Loaded /\ census = <<>>) => msoa_columns # NoColumns

====
